---- MODULE Spec2Model ----
(***************************************************************************)
(* The Pure API of flax.nnx (flax/nnx/nnx/pure.py): an immutable snapshot  *)
(* (GraphDef, State) of a live object graph, proxied calls on it that      *)
(* merge, act and split, and the conversions pure / stateful.              *)
(*                                                                         *)
(* Live graphs are objects in a heap, addressed by object ids >= 1 (0 is   *)
(* "no object").  Snapshots are objects of their own, kept in the          *)
(* append-only store snaps and addressed by their index.  Callers are      *)
(* threads; every proxied call is broken into the statements of the code   *)
(* (merge, accessor, invoke, split) so that two calls can interleave.      *)
(***************************************************************************)
EXTENDS Integers, Sequences, FiniteSets, TLC

\* ------------------------------------------------------------------ bounds
MaxSnaps == 3        \* snapshots ever built (pure and successful calls)

Threads == {1, 2}

\* ------------------------------------------------------------ live objects
\* Every heap object is a record [type, count, w, children]:
\*   StatefulLinear  the docstring's class: leaves count and w, no children
\*   dict            item access to children
\*   Module          attribute access to children
NoKids == [k \in {} |-> 0]

Linear(c, w) == [type |-> "StatefulLinear", count |-> c, w |-> w, children |-> NoKids]

Container(ty, kids) == [type |-> ty, count |-> 0, w |-> 0, children |-> kids]

\* The order in which split and merge walk the children of a node (sorted keys).
KeyOrder == <<"a", "b", "sub">>

LeafNames == <<"count", "w">>

IsLeafNode(o) == o.type = "StatefulLinear"

\* The live graphs a user may hand to pure(): a single StatefulLinear (the
\* first docstring example), a dict of two of them (the second), a dict whose
\* two keys hold one shared object, and a Module holding such a dict.
\* Object ids are deliberately not in traversal order.
InitGraphs ==
  { [root |-> 3, heap |-> (3 :> Linear(0, 2))],
    [root |-> 5, heap |-> (5 :> Container("dict", [a |-> 4, b |-> 2])
                           @@ 4 :> Linear(0, 2) @@ 2 :> Linear(1, 3))],
    [root |-> 5, heap |-> (5 :> Container("dict", [a |-> 2, b |-> 2])
                           @@ 2 :> Linear(0, 2))],
    [root |-> 6, heap |-> (6 :> Container("Module", [sub |-> 5])
                           @@ 5 :> Container("dict", [a |-> 4, b |-> 2])
                           @@ 4 :> Linear(0, 2) @@ 2 :> Linear(1, 3))] }

\* ------------------------------------------------------------ graph.split
RECURSIVE flatten(_, _, _, _)
RECURSIVE flattenKids(_, _, _, _, _)

\* Depth-first walk from id: acc is the sequence of [id, path] in first-visit
\* order; an object reached a second time is not entered again.
flatten(h, id, path, acc) ==
  IF \E i \in 1..Len(acc) : acc[i].id = id
  THEN acc
  ELSE flattenKids(h, id, path, 1, Append(acc, [id |-> id, path |-> path]))

flattenKids(h, id, path, k, acc) ==
  IF k > Len(KeyOrder) THEN acc
  ELSE IF KeyOrder[k] \in DOMAIN h[id].children
       THEN flattenKids(h, id, path, k + 1,
              flatten(h, h[id].children[KeyOrder[k]], Append(path, KeyOrder[k]), acc))
       ELSE flattenKids(h, id, path, k + 1, acc)

IndexOf(acc, id) == CHOOSE i \in 1..Len(acc) : acc[i].id = id

\* The objects reachable from a root.
Reach(h, root) ==
  IF root = 0 THEN {}
  ELSE LET acc == flatten(h, root, <<>>, <<>>) IN { acc[i].id : i \in 1..Len(acc) }

LeafPaths(h, acc) ==
  { Append(acc[i].path, LeafNames[j]) :
      i \in { n \in 1..Len(acc) : IsLeafNode(h[acc[n].id]) }, j \in 1..Len(LeafNames) }

LeafValue(h, acc, p) ==
  LET i == CHOOSE n \in 1..Len(acc) : acc[n].path = SubSeq(p, 1, Len(p) - 1)
      o == h[acc[i].id]
  IN IF p[Len(p)] = "count" THEN o.count ELSE o.w

\* graph.split(node): the GraphDef lists the nodes in first-visit order, each
\* with its type, the path it was first reached by and its children as node
\* indices (so sharing is kept); the State maps every leaf path to its value.
\* sid is a history tag naming the split that produced the two parts.
split(h, root, sid) ==
  LET acc == flatten(h, root, <<>>, <<>>)
  IN [graphdef |->
        [nodes |-> [i \in 1..Len(acc) |->
                      [type |-> h[acc[i].id].type,
                       path |-> acc[i].path,
                       children |-> [k \in DOMAIN h[acc[i].id].children |->
                                       IndexOf(acc, h[acc[i].id].children[k])]]],
         sid |-> sid],
      state |->
        [vals |-> [p \in LeafPaths(h, acc) |-> LeafValue(h, acc, p)],
         sid |-> sid]]

\* ------------------------------------------------------------ graph.merge
RECURSIVE FreshIds(_, _)
\* The n smallest object ids not in use.
FreshIds(used, n) ==
  IF n = 0 THEN <<>>
  ELSE LET i == CHOOSE c \in 1..(Cardinality(used) + 1) :
                  c \notin used /\ \A j \in 1..(c - 1) : j \in used
       IN <<i>> \o FreshIds(used \cup {i}, n - 1)

\* graph.merge(graphdef, state): one new object per node of the GraphDef, the
\* leaves read from the State at the node's path.  A State that lacks a leaf
\* of the GraphDef is a structural mismatch (ok = FALSE).
merge(h, graphdef, state) ==
  LET nodes == graphdef.nodes
      ids == FreshIds(DOMAIN h, Len(nodes))
      fits == \A i \in 1..Len(nodes) :
                nodes[i].type = "StatefulLinear" =>
                  \A j \in 1..Len(LeafNames) :
                    Append(nodes[i].path, LeafNames[j]) \in DOMAIN state.vals
      obj(i) == IF nodes[i].type = "StatefulLinear"
                THEN Linear(state.vals[Append(nodes[i].path, "count")],
                            state.vals[Append(nodes[i].path, "w")])
                ELSE Container(nodes[i].type,
                               [k \in DOMAIN nodes[i].children |-> ids[nodes[i].children[k]]])
  IN IF fits
     THEN [ok |-> TRUE, root |-> ids[1],
           heap |-> [o \in DOMAIN h \cup { ids[i] : i \in 1..Len(nodes) } |->
                       IF o \in DOMAIN h THEN h[o]
                       ELSE obj(CHOOSE i \in 1..Len(nodes) : ids[i] = o)]]
     ELSE [ok |-> FALSE, root |-> 0, heap |-> h]

\* Python's reference counting: objects no root reaches any more are freed.
Collect(h, roots) ==
  LET live == UNION { Reach(h, r) : r \in roots }
  IN [o \in live |-> h[o]]


\* --------------------------------------------- access paths and invocation
\* A DelayedAccessor is the sequence of access steps collected so far.
Attr(n) == [op |-> "attr", name |-> n]

Item(k) == [op |-> "item", name |-> k]

\* What an access or a call is applied to: a node of the live graph, a bound
\* method of one, or a plain leaf value.
NodeT(id) == [kind |-> "node", id |-> id, name |-> ""]

MethodT(id, n) == [kind |-> "method", id |-> id, name |-> n]

ValueT(id, n) == [kind |-> "value", id |-> id, name |-> n]

NoTarget == [kind |-> "none", id |-> 0, name |-> ""]

\* getattr(target, name) / target[name] on the live graph, as Python resolves
\* them: [err, tgt].
ResolveStep(h, tgt, step) ==
  IF tgt.kind # "node"
  THEN [err |-> IF step.op = "attr" THEN "AttributeError" ELSE "TypeError", tgt |-> NoTarget]
  ELSE LET o == h[tgt.id] IN
    CASE o.type = "StatefulLinear" /\ step.op = "attr" ->
           IF step.name = "increment"
           THEN [err |-> "", tgt |-> MethodT(tgt.id, "increment")]
           ELSE IF step.name \in {"count", "w"}
           THEN [err |-> "", tgt |-> ValueT(tgt.id, step.name)]
           ELSE [err |-> "AttributeError", tgt |-> NoTarget]
      [] o.type = "StatefulLinear" /\ step.op = "item" ->
           [err |-> "TypeError", tgt |-> NoTarget]
      [] o.type = "dict" /\ step.op = "item" ->
           IF step.name \in DOMAIN o.children
           THEN [err |-> "", tgt |-> NodeT(o.children[step.name])]
           ELSE [err |-> "KeyError", tgt |-> NoTarget]
      [] o.type = "dict" /\ step.op = "attr" ->
           [err |-> "AttributeError", tgt |-> NoTarget]
      [] o.type = "Module" /\ step.op = "attr" ->
           IF step.name \in DOMAIN o.children
           THEN [err |-> "", tgt |-> NodeT(o.children[step.name])]
           ELSE [err |-> "AttributeError", tgt |-> NoTarget]
      [] OTHER -> [err |-> "TypeError", tgt |-> NoTarget]

RECURSIVE ApplyFrom(_, _, _, _)
\* DelayedAccessor.__call__(x): the collected steps applied in order, the
\* first error ending the resolution.
ApplyFrom(h, tgt, acc, i) ==
  IF i > Len(acc) THEN [err |-> "", tgt |-> tgt]
  ELSE LET r == ResolveStep(h, tgt, acc[i])
       IN IF r.err # "" THEN r ELSE ApplyFrom(h, r.tgt, acc, i + 1)

DelayedAccessor__call__(h, root, acc) == ApplyFrom(h, NodeT(root), acc, 1)

\* Call arguments: x is an input array of a shape that fits w, or not.
GoodX == [shape |-> "ok", v |-> 1]

BadX == [shape |-> "bad", v |-> 1]


\* StatefulLinear.increment: self.count.value += 1
increment(h, id) == [h EXCEPT ![id].count = @ + 1]

\* tgt(*args) on the live graph: [heap, out, err].  out is <<>> for None and
\* <<v>> for a value.  StatefulLinear.__call__ increments first and then
\* computes x @ w + b, which raises on an x of the wrong shape.
Invoke(h, tgt, a) ==
  CASE tgt.kind = "method" /\ tgt.name = "increment" ->
         IF Len(a) # 0 THEN [heap |-> h, out |-> <<>>, err |-> "TypeError"]
         ELSE [heap |-> increment(h, tgt.id), out |-> <<>>, err |-> ""]
    [] tgt.kind = "node" /\ h[tgt.id].type = "StatefulLinear" ->
         IF Len(a) # 1 THEN [heap |-> h, out |-> <<>>, err |-> "TypeError"]
         ELSE IF a[1].shape # "ok"
         THEN [heap |-> increment(h, tgt.id), out |-> <<>>, err |-> "ValueError"]
         ELSE [heap |-> increment(h, tgt.id), out |-> <<a[1].v * h[tgt.id].w>>, err |-> ""]
    [] OTHER -> [heap |-> h, out |-> <<>>, err |-> "TypeError"]

\* The access paths the callers use.
TestPaths(t) ==
  IF t = 1
  THEN { <<Attr("increment")>>,
         <<Item("b"), Attr("increment")>>,
         <<Item("a"), Attr("increment")>>,
         <<Attr("sub"), Item("b"), Attr("increment")>>,
         <<Attr("sub"), Item("b")>>,
         <<Attr("count")>>,
         <<Attr("replace")>> }
  ELSE { <<Attr("increment")>>,
         <<Item("b"), Attr("increment")>> }

\* The arguments a caller passes along an access path (<<>> is the direct
\* call).  Thread 1 is the caller under study: it passes what fits, what does
\* not, and an x of the wrong shape where x reaches StatefulLinear.__call__.
\* Thread 2 is a second holder of the same Pure objects, calling concurrently.
ArgChoices(t, acc) ==
  IF t # 1 THEN { <<>> }
  ELSE IF acc \in { <<>>, <<Attr("sub"), Item("b")>> } THEN { <<>>, <<GoodX>>, <<BadX>> }
  ELSE IF acc = <<Attr("increment")>> THEN { <<>>, <<GoodX>> }
  ELSE { <<>> }

\* The threads that make direct calls, and those that convert.
DirectCallers == {1}

Converters == {1}

Prefixes(t) == UNION { { SubSeq(p, 1, n) : n \in 1..Len(p) } : p \in TestPaths(t) }

\* ------------------------------------------------------------------ state
VARIABLES
  heap,      \* the live objects: object id -> object
  live,      \* root of the user's live graph
  snaps,     \* the Pure objects ever built: [_pure_graphdef, _pure_state]
  lineage,   \* history, per Pure object: the successful calls that led to it
  nsplit,    \* history: number of graph.split calls so far
  self,      \* per thread: the Pure object it holds (0: none)
  pc,        \* per thread: where it is
  accessor,  \* per thread: the DelayedAccessor of its proxy / call
  args,      \* per thread: the arguments of its call
  node,      \* per thread: pure_caller's local node (0: none)
  method,    \* per thread: pure_caller's local method
  out,       \* per thread: pure_caller's local out
  ret,       \* per thread: what the last operation returned
  err,       \* per thread: the error the last operation raised ("": none)
  ev,        \* history, per thread: the steps of the current top-level call
  before,    \* history, per thread: the Pure objects as they were when its call began
  back       \* the live graph stateful() last returned, and the Pure it was built from

vars == <<heap, live, snaps, lineage, nsplit, self, pc, accessor, args, node,
          method, out, ret, err, ev, before, back>>

frame == <<accessor, args, node, method, out, ret, err, ev, before>>

NoRet == [kind |-> "none", out |-> <<>>, snap |-> 0]

NoBack == [root |-> 0, from |-> 0]

\* struct.dataclass: the constructor Pure(graphdef, state).
Pure(graphdef, state) == [_pure_graphdef |-> graphdef, _pure_state |-> state]

\* Every reference into the heap that is still held: the user's graph, the
\* graph stateful() returned, and each call's locals node and method (a bound
\* method holds its object).
Roots(nd, md, bk) ==
  {live, bk.root} \cup { nd[t] : t \in Threads } \cup { md[t].id : t \in Threads }

\* The bound of the model: no call is started, and no chain of accesses begun,
\* that could take the Pure objects ever built beyond MaxSnaps.
InFlight == Cardinality({ t \in Threads : pc[t] \in {"c104", "c105", "p111", "p112", "p113"} })

Budget == Len(snaps) + InFlight < MaxSnaps

Init ==
  /\ \E g \in InitGraphs : heap = g.heap /\ live = g.root
  /\ snaps = <<>>
  /\ lineage = <<>>
  /\ nsplit = 0
  /\ self = [t \in Threads |-> 0]
  /\ pc = [t \in Threads |-> "idle"]
  /\ accessor = [t \in Threads |-> <<>>]
  /\ args = [t \in Threads |-> <<>>]
  /\ node = [t \in Threads |-> 0]
  /\ method = [t \in Threads |-> NoTarget]
  /\ out = [t \in Threads |-> <<>>]
  /\ ret = [t \in Threads |-> NoRet]
  /\ err = [t \in Threads |-> ""]
  /\ ev = [t \in Threads |-> <<>>]
  /\ before = [t \in Threads |-> <<>>]
  /\ back = NoBack

\* ------------------------------------------------ the conversion functions
\* A variant of pure that splits the user's graph whatever node it is given.
pureOfLive(t, r) ==
  /\ t \in Converters
  /\ \/ pc[t] = "idle" /\ r = live
     \/ pc[t] = "live" /\ r = back.root
  /\ Budget
  /\ LET sp == split(heap, live, nsplit + 1)
     IN /\ snaps' = Append(snaps, Pure(sp.graphdef, sp.state))
        /\ lineage' = Append(lineage,
                        IF r = live THEN [calls |-> <<>>, re |-> 0]
                        ELSE [calls |-> lineage[back.from].calls, re |-> back.from])
  /\ nsplit' = nsplit + 1
  /\ self' = [self EXCEPT ![t] = Len(snaps) + 1]
  /\ UNCHANGED <<heap, live, pc, frame, back>>

\* pure(node), for a live graph r the caller holds: the user's graph, or the
\* one stateful() has just returned to it.
pure(t, r) ==
  /\ t \in Converters
  /\ \/ pc[t] = "idle" /\ r = live
     \/ pc[t] = "live" /\ r = back.root
  /\ Budget
  /\ LET sp == split(heap, r, nsplit + 1)
     IN /\ snaps' = Append(snaps, Pure(sp.graphdef, sp.state))
        /\ lineage' = Append(lineage,
                        IF r = live THEN [calls |-> <<>>, re |-> 0]
                        ELSE [calls |-> lineage[back.from].calls, re |-> back.from])
  /\ nsplit' = nsplit + 1
  /\ self' = [self EXCEPT ![t] = Len(snaps) + 1]
  /\ UNCHANGED <<heap, live, pc, frame, back>>

\* stateful(pure), for the Pure object the thread holds.
stateful(t) ==
  /\ t \in Converters
  /\ pc[t] = "idle"
  /\ self[t] # 0
  /\ LET m == merge(heap, snaps[self[t]]._pure_graphdef, snaps[self[t]]._pure_state)
     IN /\ m.ok
        /\ heap' = m.heap
        /\ back' = [root |-> m.root, from |-> self[t]]
  /\ pc' = [pc EXCEPT ![t] = "live"]
  /\ UNCHANGED <<live, snaps, lineage, nsplit, self, frame>>

\* ------------------------------------------------------- the caller's code
\* A caller that holds no Pure object yet is handed one that exists (Pure
\* values are passed around freely, as pure_linear is in the docstring's
\* forward).
Take(t, s) ==
  /\ pc[t] = "idle"
  /\ s \in 1..Len(snaps)
  /\ s # self[t]
  /\ self[t] = 0
  /\ self' = [self EXCEPT ![t] = s]
  /\ UNCHANGED <<heap, live, snaps, lineage, nsplit, pc, frame, back>>

\* The statement after a call: "y, pure_linear = pure_linear(x)" rebinds the
\* caller's name to the new Pure, "_, other = pure_linear(x)" keeps the old
\* one; after an error or a plain attribute the caller still holds the one it
\* had.  The results of the finished operation go out of scope.
Continue(t) ==
  /\ pc[t] \in {"returned", "raised", "attr", "live"}
  /\ \E rebind \in BOOLEAN :
       self' = [self EXCEPT ![t] = IF pc[t] = "returned" /\ rebind THEN ret[t].snap ELSE @]
  /\ back' = IF pc[t] = "live" THEN NoBack ELSE back
  /\ heap' = Collect(heap, Roots(node, method, back'))
  /\ pc' = [pc EXCEPT ![t] = "idle"]
  /\ accessor' = [accessor EXCEPT ![t] = <<>>]
  /\ args' = [args EXCEPT ![t] = <<>>]
  /\ out' = [out EXCEPT ![t] = <<>>]
  /\ ret' = [ret EXCEPT ![t] = NoRet]
  /\ err' = [err EXCEPT ![t] = ""]
  /\ ev' = [ev EXCEPT ![t] = <<>>]
  /\ before' = [before EXCEPT ![t] = <<>>]
  /\ UNCHANGED <<live, snaps, lineage, nsplit, node, method>>

\* ------------------------------------------------------ attribute lookup
\* The members Python's normal lookup finds on a Pure object, for which
\* __getattr__ is never called: the two dataclass fields, and the methods
\* struct.dataclass adds to the class less the ones the module deletes.
Fields == {"_pure_graphdef", "_pure_state"}

DataclassMethods == {"replace"}

\* A variant of the module without its last statement.
DeletedNothing == {}

\* del Pure.replace
Deleted == {"replace"}

OwnMembers == Fields \cup (DataclassMethods \ Deleted)

\* The names a caller uses in an attribute access and in an item access.
AttrInputs(t) ==
  (IF t = 1 THEN Fields \cup DataclassMethods ELSE {})
    \cup { q[Len(q)].name : q \in { r \in Prefixes(t) : r[Len(r)].op = "attr" } }

ItemInputs(t) == {"a", "b"}

\* CallableProxy(pure_caller): a proxy holding the accessor collected so far.
NewProxy(t, step) ==
  /\ <<step>> \in Prefixes(t)
  /\ Budget
  /\ pc' = [pc EXCEPT ![t] = "proxy"]
  /\ accessor' = [accessor EXCEPT ![t] = <<step>>]
  /\ ret' = [ret EXCEPT ![t] = [kind |-> "proxy", out |-> <<>>, snap |-> 0]]
  /\ ev' = [ev EXCEPT ![t] = <<step.op>>]
  /\ UNCHANGED <<heap, live, snaps, lineage, nsplit, self, args, node, method, out, err,
                 before, back>>

\* A variant of __getattr__ that reconstructs the live graph at once, when the
\* attribute is accessed.
Pure__getattr__Eager(t, name) ==
  /\ pc[t] = "idle"
  /\ self[t] # 0
  /\ IF name \in OwnMembers
     THEN /\ pc' = [pc EXCEPT ![t] = "attr"]
          /\ accessor' = [accessor EXCEPT ![t] = <<Attr(name)>>]
          /\ ret' = [ret EXCEPT ![t] = [kind |-> "member", out |-> <<>>, snap |-> self[t]]]
          /\ UNCHANGED <<heap, live, snaps, lineage, nsplit, self, args, node, method,
                         out, err, ev, before, back>>
     ELSE /\ <<Attr(name)>> \in Prefixes(t)
          /\ Budget
          /\ LET m == merge(heap, snaps[self[t]]._pure_graphdef, snaps[self[t]]._pure_state)
             IN /\ heap' = m.heap
                /\ node' = [node EXCEPT ![t] = m.root]
          /\ pc' = [pc EXCEPT ![t] = "proxy"]
          /\ accessor' = [accessor EXCEPT ![t] = <<Attr(name)>>]
          /\ ret' = [ret EXCEPT ![t] = [kind |-> "proxy", out |-> <<>>, snap |-> 0]]
          /\ ev' = [ev EXCEPT ![t] = <<"attr", "merge">>]
          /\ UNCHANGED <<live, snaps, lineage, nsplit, self, args, method, out, err,
                         before, back>>

\* pure.<name>: Python calls Pure.__getattr__ only when normal lookup fails.
Pure__getattr__(t, name) ==
  /\ pc[t] = "idle"
  /\ self[t] # 0
  /\ IF name \in OwnMembers
     THEN /\ pc' = [pc EXCEPT ![t] = "attr"]
          /\ accessor' = [accessor EXCEPT ![t] = <<Attr(name)>>]
          /\ ret' = [ret EXCEPT ![t] = [kind |-> "member", out |-> <<>>, snap |-> self[t]]]
          /\ UNCHANGED <<heap, live, snaps, lineage, nsplit, self, args, node, method,
                         out, err, ev, before, back>>
     ELSE NewProxy(t, Attr(name))

\* pure[<name>]
Pure__getitem__(t, name) ==
  /\ pc[t] = "idle"
  /\ self[t] # 0
  /\ NewProxy(t, Item(name))

\* CallableProxy.__getattr__ / __getitem__: one more step on the accessor.
ProxyStep(t, step) ==
  /\ pc[t] = "proxy"
  /\ Append(accessor[t], step) \in Prefixes(t)
  /\ accessor' = [accessor EXCEPT ![t] = Append(@, step)]
  /\ ev' = [ev EXCEPT ![t] = Append(@, step.op)]
  /\ UNCHANGED <<heap, live, snaps, lineage, nsplit, self, pc, args, node, method,
                 out, ret, err, before, back>>

CallableProxy__getattr__(t, name) == ProxyStep(t, Attr(name))

CallableProxy__getitem__(t, name) == ProxyStep(t, Item(name))

\* ------------------------------------------------------- the proxied call
\* An exception leaves the function: its locals are dropped, nothing is
\* returned.
Raise(t, e, h) ==
  /\ pc' = [pc EXCEPT ![t] = "raised"]
  /\ err' = [err EXCEPT ![t] = e]
  /\ node' = [node EXCEPT ![t] = 0]
  /\ method' = [method EXCEPT ![t] = NoTarget]
  /\ heap' = Collect(h, Roots(node', method', back))
  /\ UNCHANGED <<live, snaps, lineage, nsplit, self, accessor, out, ret, before, back>>

\* The call has its live graph m (a result of graph.merge) and goes on at next.
BeginCall(t, a, next, m) ==
  /\ args' = [args EXCEPT ![t] = a]
  /\ ev' = [ev EXCEPT ![t] = Append(@, "merge")]
  /\ before' = [before EXCEPT ![t] = snaps]
  /\ IF m.ok
     THEN /\ heap' = m.heap
          /\ node' = [node EXCEPT ![t] = m.root]
          /\ pc' = [pc EXCEPT ![t] = next]
          /\ UNCHANGED <<live, snaps, lineage, nsplit, self, accessor, method, out,
                         ret, err, back>>
     ELSE /\ pc' = [pc EXCEPT ![t] = "raised"]
          /\ err' = [err EXCEPT ![t] = "StructuralMismatch"]
          /\ UNCHANGED <<heap, live, snaps, lineage, nsplit, self, accessor, node,
                         method, out, ret, back>>

\* A variant of the merge statement that reuses the live graph another call
\* has already reconstructed from the same Pure object.
MergeSelfCached(t, a, next) ==
  /\ self[t] # 0
  /\ Budget
  /\ LET others == { u \in Threads \ {t} : node[u] # 0 /\ self[u] = self[t] }
     IN BeginCall(t, a, next,
          IF others # {}
          THEN [ok |-> TRUE, root |-> node[CHOOSE u \in others : TRUE], heap |-> heap]
          ELSE merge(heap, snaps[self[t]]._pure_graphdef, snaps[self[t]]._pure_state))

\* node = graph.merge(self._pure_graphdef, self._pure_state)
MergeSelf(t, a, next) ==
  /\ self[t] # 0
  /\ Budget
  /\ BeginCall(t, a, next,
       merge(heap, snaps[self[t]]._pure_graphdef, snaps[self[t]]._pure_state))

\* return out, p  for a newly built Pure object p; the call's locals are
\* dropped, h being the heap at that moment.
ReturnOutAnd(t, h, p) ==
  /\ snaps' = Append(snaps, p)
  /\ lineage' = Append(lineage,
                  [calls |-> Append(lineage[self[t]].calls,
                                    [accessor |-> accessor[t], args |-> args[t]]),
                   re |-> 0])
  /\ nsplit' = nsplit + 1
  /\ ret' = [ret EXCEPT ![t] = [kind |-> "result", out |-> out'[t], snap |-> Len(snaps) + 1]]
  /\ pc' = [pc EXCEPT ![t] = "returned"]
  /\ node' = [node EXCEPT ![t] = 0]
  /\ method' = [method EXCEPT ![t] = NoTarget]
  /\ heap' = Collect(h, Roots(node', method', back))
  /\ UNCHANGED <<live, self, accessor, args, err, before, back>>

\* A variant of the invocation that catches the error of the target and still
\* splits and returns.
InvokeTargetFinally(t, tgt, next) ==
  LET r == Invoke(heap, tgt, args[t])
  IN IF r.err = ""
     THEN /\ heap' = r.heap
          /\ out' = [out EXCEPT ![t] = r.out]
          /\ pc' = [pc EXCEPT ![t] = next]
          /\ ev' = [ev EXCEPT ![t] = Append(@, "invoke")]
          /\ UNCHANGED <<live, snaps, lineage, nsplit, self, accessor, args, node,
                         method, ret, err, before, back>>
     ELSE /\ out' = out
          /\ ev' = [ev EXCEPT ![t] = @ \o <<"invoke", "split">>]
          /\ LET sp == split(r.heap, node[t], nsplit + 1)
             IN ReturnOutAnd(t, r.heap, Pure(sp.graphdef, sp.state))

\* out = target(*args, **kwargs)
InvokeTarget(t, tgt, next) ==
  LET r == Invoke(heap, tgt, args[t])
  IN /\ ev' = [ev EXCEPT ![t] = Append(@, "invoke")]
     /\ IF r.err = ""
        THEN /\ heap' = r.heap
             /\ out' = [out EXCEPT ![t] = r.out]
             /\ pc' = [pc EXCEPT ![t] = next]
             /\ UNCHANGED <<live, snaps, lineage, nsplit, self, accessor, args, node,
                            method, ret, err, before, back>>
        ELSE /\ Raise(t, r.err, r.heap)
             /\ args' = args

\* A variant of the last two statements that writes the new parts into the
\* Pure object the call was made on and returns that object.
SplitReturnInPlace(t) ==
  LET sp == split(heap, node[t], nsplit + 1)
  IN /\ snaps' = [snaps EXCEPT ![self[t]] = Pure(sp.graphdef, sp.state)]
     /\ lineage' = [lineage EXCEPT ![self[t]].calls =
                      Append(@, [accessor |-> accessor[t], args |-> args[t]])]
     /\ nsplit' = nsplit + 1
     /\ ret' = [ret EXCEPT ![t] = [kind |-> "result", out |-> out[t], snap |-> self[t]]]
     /\ ev' = [ev EXCEPT ![t] = Append(@, "split")]
     /\ pc' = [pc EXCEPT ![t] = "returned"]
     /\ node' = [node EXCEPT ![t] = 0]
     /\ method' = [method EXCEPT ![t] = NoTarget]
     /\ heap' = Collect(heap, Roots(node', method', back))
     /\ UNCHANGED <<live, self, accessor, args, out, err, before, back>>

\* A variant that splits the object the method was found on, not the root.
SplitReturnSubnode(t) ==
  LET sp == split(heap, IF method[t].id # 0 THEN method[t].id ELSE node[t], nsplit + 1)
  IN /\ ev' = [ev EXCEPT ![t] = Append(@, "split")]
     /\ out' = out
     /\ ReturnOutAnd(t, heap, Pure(sp.graphdef, sp.state))

\* A variant that keeps the GraphDef the Pure object already had and pairs it
\* with the new State.
SplitReturnOldDef(t) ==
  LET sp == split(heap, node[t], nsplit + 1)
  IN /\ ev' = [ev EXCEPT ![t] = Append(@, "split")]
     /\ out' = out
     /\ ReturnOutAnd(t, heap, Pure(snaps[self[t]]._pure_graphdef, sp.state))

\* graphdef, state = graph.split(node); return out, Pure(graphdef, state)
SplitReturn(t) ==
  LET sp == split(heap, node[t], nsplit + 1)
  IN /\ ev' = [ev EXCEPT ![t] = Append(@, "split")]
     /\ out' = out
     /\ ReturnOutAnd(t, heap, Pure(sp.graphdef, sp.state))

\* Pure.__call__, statement by statement.
Pure__call__103(t, a) ==
  /\ t \in DirectCallers
  /\ pc[t] = "idle"
  /\ MergeSelf(t, a, "c104")

Pure__call__104(t) ==
  /\ pc[t] = "c104"
  /\ InvokeTarget(t, NodeT(node[t]), "c105")

Pure__call__105(t) ==
  /\ pc[t] = "c105"
  /\ SplitReturn(t)

\* pure_caller (the closure of __getattr__ and of __getitem__, the same code),
\* run by CallableProxy.__call__ with the accessor collected.
pure_caller110(t, a) ==
  /\ pc[t] = "proxy"
  /\ accessor[t] \in TestPaths(t)
  /\ MergeSelf(t, a, "p111")

\* A variant that resolves the accessor on a second reconstruction of the
\* graph, not on node.
pure_caller111FreshMerge(t) ==
  /\ pc[t] = "p111"
  /\ LET m == merge(heap, snaps[self[t]]._pure_graphdef, snaps[self[t]]._pure_state)
         r == DelayedAccessor__call__(m.heap, m.root, accessor[t])
     IN IF r.err = ""
        THEN /\ method' = [method EXCEPT ![t] = r.tgt]
             /\ heap' = m.heap
             /\ pc' = [pc EXCEPT ![t] = "p112"]
             /\ UNCHANGED <<live, snaps, lineage, nsplit, self, accessor, args,
                            node, out, ret, err, before, back>>
        ELSE /\ Raise(t, r.err, heap)
             /\ args' = args
  /\ ev' = [ev EXCEPT ![t] = Append(@, "resolve")]

\* method = accessor(node)
pure_caller111(t) ==
  /\ pc[t] = "p111"
  /\ LET r == DelayedAccessor__call__(heap, node[t], accessor[t])
     IN IF r.err = ""
        THEN /\ method' = [method EXCEPT ![t] = r.tgt]
             /\ pc' = [pc EXCEPT ![t] = "p112"]
             /\ UNCHANGED <<heap, live, snaps, lineage, nsplit, self, accessor, args,
                            node, out, ret, err, before, back>>
        ELSE /\ Raise(t, r.err, heap)
             /\ args' = args
  /\ ev' = [ev EXCEPT ![t] = Append(@, "resolve")]

\* A variant that invokes node, as Pure.__call__ does, not method.
pure_caller112CallsNode(t) ==
  /\ pc[t] = "p112"
  /\ InvokeTarget(t, NodeT(node[t]), "p113")

\* out = method(*args, **kwargs)
pure_caller112(t) ==
  /\ pc[t] = "p112"
  /\ InvokeTarget(t, method[t], "p113")

pure_caller113(t) ==
  /\ pc[t] = "p113"
  /\ SplitReturn(t)

Next ==
  \E t \in Threads :
    \/ \E r \in {live, back.root} : pure(t, r)
    \/ stateful(t)
    \/ \E s \in 1..Len(snaps) : Take(t, s)
    \/ Continue(t)
    \/ \E n \in AttrInputs(t) : Pure__getattr__(t, n)
    \/ \E n \in ItemInputs(t) : Pure__getitem__(t, n)
    \/ \E n \in AttrInputs(t) : CallableProxy__getattr__(t, n)
    \/ \E n \in ItemInputs(t) : CallableProxy__getitem__(t, n)
    \/ \E a \in ArgChoices(t, <<>>) : Pure__call__103(t, a)
    \/ Pure__call__104(t)
    \/ Pure__call__105(t)
    \/ \E a \in ArgChoices(t, accessor[t]) : pure_caller110(t, a)
    \/ pure_caller111(t)
    \/ pure_caller112(t)
    \/ pure_caller113(t)

Spec == Init /\ [][Next]_vars

\* -------------------------------------------------------------- properties
\* Two Pure objects hold the same definition and the same state (the history
\* tags apart).
SameDef(p, q) == p._pure_graphdef.nodes = q._pure_graphdef.nodes

SameState(p, q) == p._pure_state.vals = q._pure_state.vals

Equivalent(p, q) == SameDef(p, q) /\ SameState(p, q)

PureOf(h, root) == LET sp == split(h, root, 0) IN Pure(sp.graphdef, sp.state)

NoHeap == [o \in {} |-> 0]

RECURSIVE Direct(_, _, _)
\* Python's own evaluation of  root<step 1>...<step n>  on a live graph: the
\* value of the shorter expression first, then the last step on it.
Direct(h, root, acc) ==
  IF acc = <<>> THEN [err |-> "", tgt |-> NodeT(root)]
  ELSE LET r == Direct(h, root, SubSeq(acc, 1, Len(acc) - 1))
       IN IF r.err # "" THEN r ELSE ResolveStep(h, r.tgt, acc[Len(acc)])

\* The call c = [accessor, args] made directly on the live graph at root.
DirectCall(h, root, c) ==
  LET r == Direct(h, root, c.accessor)
  IN IF r.err # "" THEN [heap |-> h, out |-> <<>>, err |-> r.err]
     ELSE Invoke(h, r.tgt, c.args)

RECURSIVE DirectCalls(_, _, _, _)
\* The calls, from the i-th on, made one after the other on the live graph.
DirectCalls(h, root, calls, i) ==
  IF i > Len(calls) THEN h
  ELSE DirectCalls(DirectCall(h, root, calls[i]).heap, root, calls, i + 1)

\* The user's live graph (no operation of the module changes it).
UserGraph == Collect(heap, {live})

\* What the call c does when it is made on a live graph reconstructed from
\* the Pure object p, with nothing else going on: [err, out, pure].
OnLive(p, c) ==
  LET m == merge(NoHeap, p._pure_graphdef, p._pure_state)
      d == DirectCall(m.heap, m.root, c)
  IN [err |-> d.err, out |-> d.out, pure |-> PureOf(d.heap, m.root)]

CallOf(t) == [accessor |-> accessor[t], args |-> args[t]]

\* The Pure object thread t's call was made on, as it was when the call began.
Original(t) == before[t][self[t]]

IsIncrement(c) == c.accessor = <<Attr("increment")>> /\ c.args = <<>>

InCall(t) == pc[t] \in {"c104", "c105", "p111", "p112", "p113"}

\* C1 (state threading): every Pure object reached from pure(g) through n calls,
\* each made on the Pure the previous one returned, holds the state of the
\* live graph g after the same n calls made directly on it; a counter that
\* starts at 0 is n after n threaded increments, in the Pure object and in
\* stateful() of it.
C1_StateThreading ==
  \A s \in 1..Len(snaps) :
    LET calls == lineage[s].calls
        g == PureOf(DirectCalls(UserGraph, live, calls, 1), live)
    IN /\ Equivalent(snaps[s], g)
       /\ (/\ heap[live].type = "StatefulLinear"
           /\ heap[live].count = 0
           /\ \A i \in 1..Len(calls) : IsIncrement(calls[i]))
          => /\ snaps[s]._pure_state.vals[<<"count">>] = Len(calls)
             /\ (back.from = s => heap[back.root].count = Len(calls))

C1_Witness ==
  \E s \in 1..Len(snaps) :
    /\ Len(lineage[s].calls) = 2
    /\ \A i \in 1..2 : IsIncrement(lineage[s].calls[i])
    /\ snaps[s]._pure_state.vals[<<"count">>] = 2
    /\ back.from = s
    /\ heap[back.root].count = 2

\* C2 (snapshot immutability): from the moment a call begins (direct, through
\* an attribute path or through an item path), every Pure object that existed
\* then, the one called on included, keeps both its fields; what the call
\* changed is only in the new Pure object it returns.
C2_SnapshotImmutable ==
  \A t \in Threads :
    /\ \A i \in 1..Len(before[t]) : i <= Len(snaps) /\ snaps[i] = before[t][i]
    /\ pc[t] = "returned" => ret[t].snap > Len(before[t]) /\ ret[t].snap <= Len(snaps)

C2_Witness ==
  /\ pc[1] = "returned"
  /\ accessor[1] = <<Item("b"), Attr("increment")>>
  /\ ~SameState(snaps[ret[1].snap], snaps[self[1]])
  /\ snaps[self[1]] = Original(1)

\* C3 (independent divergence): two calls in progress never share an object of
\* their live graphs, nor one with the user's graph; and when two threads have
\* called on the same Pure object, whatever the interleaving, what each gets
\* back is what its call gives when made alone on that Pure object.
C3_IndependentDivergence ==
  \A t \in Threads : \A u \in Threads \ {t} :
    /\ node[t] # 0 =>
         /\ Reach(heap, node[t]) \cap Reach(heap, node[u]) = {}
         /\ Reach(heap, node[t]) \cap (Reach(heap, live) \cup Reach(heap, back.root)) = {}
    /\ (/\ pc[t] = "returned"
        /\ self[u] = self[t]
        /\ InCall(u) \/ pc[u] \in {"returned", "raised"})
       => Equivalent(snaps[ret[t].snap], OnLive(snaps[self[t]], CallOf(t)).pure)

C3_Witness ==
  /\ self[1] = self[2]
  /\ pc[1] = "returned"
  /\ pc[2] = "returned"
  /\ accessor[1] = <<Item("a"), Attr("increment")>>
  /\ accessor[2] = <<Item("b"), Attr("increment")>>
  /\ ret[1].snap < ret[2].snap
  /\ Len(before[2]) < ret[1].snap
  /\ ~SameState(snaps[ret[1].snap], snaps[ret[2].snap])

\* C4 (failure leaves no trace): a call that fails on the live graph (the
\* accessor does not resolve, the target is not invocable, or the invocation
\* raises) ends with the error at the caller: nothing was split, nothing is
\* returned, the live graph is dropped, and the Pure object called on still has
\* the fields it had, so that reconstructing from it gives the original state.
C4_FailureLeavesNoTrace ==
  \A t \in Threads :
    (pc[t] \in {"returned", "raised"} /\ before[t] # <<>>
       /\ (pc[t] = "raised" \/ OnLive(Original(t), CallOf(t)).err # ""))
    => /\ pc[t] = "raised"
       /\ err[t] = OnLive(Original(t), CallOf(t)).err
       /\ err[t] # ""
       /\ ret[t].kind # "result"
       /\ ret[t].snap = 0
       /\ \A i \in 1..Len(ev[t]) : ev[t][i] # "split"
       /\ node[t] = 0
       /\ snaps[self[t]] = Original(t)
       /\ LET m == merge(heap, snaps[self[t]]._pure_graphdef, snaps[self[t]]._pure_state)
          IN Equivalent(PureOf(m.heap, m.root), Original(t))

C4_Witness ==
  /\ pc[1] = "raised"
  /\ err[1] = "ValueError"
  /\ ev[1][Len(ev[1])] = "invoke"
  /\ snaps[self[1]] = Original(1)

\* The paths by which the objects of the modelled graphs are reached.
KeyPaths == UNION { [1..n -> { KeyOrder[i] : i \in 1..Len(KeyOrder) }] : n \in 0..Len(KeyOrder) }

RECURSIVE Walk(_, _, _, _)
\* The object at path p below id (0: there is none).
Walk(h, id, p, i) ==
  IF i > Len(p) THEN id
  ELSE IF id = 0 \/ p[i] \notin DOMAIN h[id].children THEN 0
  ELSE Walk(h, h[id].children[p[i]], p, i + 1)

\* Two live graphs have the same structure (the same paths, types and sharing)
\* and the same leaf values.
SameGraph(h, r1, r2) ==
  \A p \in KeyPaths :
    LET a == Walk(h, r1, p, 1)
        b == Walk(h, r2, p, 1)
    IN /\ (a = 0) = (b = 0)
       /\ a # 0 => /\ h[a].type = h[b].type
                   /\ h[a].count = h[b].count
                   /\ h[a].w = h[b].w
                   /\ DOMAIN h[a].children = DOMAIN h[b].children
                   /\ \A q \in KeyPaths : (Walk(h, r1, q, 1) = a) = (Walk(h, r2, q, 1) = b)

\* C5 (round trip): the live graph stateful(pure(g)) has the structure and the
\* leaf values of g, and is made of new objects; and pure(stateful(s)) holds a
\* definition and a state equivalent to those of s.
C5_RoundTrip ==
  /\ back.root # 0 =>
       /\ Reach(heap, back.root) \cap Reach(heap, live) = {}
       /\ lineage[back.from].calls = <<>> => SameGraph(heap, live, back.root)
  /\ \A s \in 1..Len(snaps) :
       lineage[s].re # 0 => Equivalent(snaps[s], snaps[lineage[s].re])

C5_Witness ==
  /\ back.root # 0
  /\ lineage[back.from].calls = <<>>
  /\ heap[live].type = "dict"
  /\ heap[live].children["a"] = heap[live].children["b"]
  /\ \E s \in 1..Len(snaps) : lineage[s].re = back.from /\ Equivalent(snaps[s], snaps[back.from])

RECURSIVE DefWalk(_, _, _, _)
\* The node of a GraphDef that the steps of an accessor lead to (the steps
\* that name no child, a method or a leaf, are the last).
DefWalk(nodes, i, acc, k) ==
  IF k > Len(acc) THEN i
  ELSE IF acc[k].name \in DOMAIN nodes[i].children
  THEN DefWalk(nodes, nodes[i].children[acc[k].name], acc, k + 1)
  ELSE i

\* C6 (a path call returns the whole graph): the Pure object a call through an
\* access path returns has the definition of the whole root graph, and its
\* state differs from the original only in the counter of the object the
\* method was called on, which is one more; with two distinct subnodes a and
\* b, after pure['b'].increment() both are there, b's counter is one more and
\* a's is unchanged.
C6_WholeGraphReturned ==
  \A t \in Threads :
    (pc[t] = "returned" /\ Len(accessor[t]) >= 1) =>
      LET old == Original(t)
          new == snaps[ret[t].snap]
          nodes == old._pure_graphdef.nodes
          cnt == Append(nodes[DefWalk(nodes, 1, accessor[t], 1)].path, "count")
      IN /\ new._pure_graphdef.nodes = nodes
         /\ DOMAIN new._pure_state.vals = DOMAIN old._pure_state.vals
         /\ \A p \in DOMAIN old._pure_state.vals :
              new._pure_state.vals[p] =
                IF p = cnt THEN old._pure_state.vals[p] + 1 ELSE old._pure_state.vals[p]
         /\ (/\ accessor[t] = <<Item("b"), Attr("increment")>>
             /\ nodes[1].children["a"] # nodes[1].children["b"])
            => /\ new._pure_state.vals[<<"b", "count">>] = old._pure_state.vals[<<"b", "count">>] + 1
               /\ new._pure_state.vals[<<"a", "count">>] = old._pure_state.vals[<<"a", "count">>]

C6_Witness ==
  \E t \in Threads :
    /\ pc[t] = "returned"
    /\ accessor[t] = <<Item("b"), Attr("increment")>>
    /\ Original(t)._pure_graphdef.nodes[1].children["a"]
         # Original(t)._pure_graphdef.nodes[1].children["b"]
    /\ snaps[ret[t].snap]._pure_state.vals[<<"b", "count">>] = 2
    /\ snaps[ret[t].snap]._pure_state.vals[<<"a", "count">>] = 0

\* C7 (chained access equivalence): a call through an access path on a Pure
\* object s returns the value, and a Pure object equivalent to the split, of
\* the same path access and call made directly on stateful(s).
C7_ChainedAccessEquivalence ==
  \A t \in Threads :
    (pc[t] = "returned" /\ Len(accessor[t]) >= 1) =>
      LET d == OnLive(Original(t), CallOf(t))
      IN /\ d.err = ""
         /\ ret[t].out = d.out
         /\ Equivalent(snaps[ret[t].snap], d.pure)

C7_Witness ==
  /\ pc[1] = "returned"
  /\ accessor[1] = <<Attr("sub"), Item("b")>>
  /\ args[1] = <<GoodX>>
  /\ ret[1].out = <<3>>
  /\ snaps[ret[1].snap]._pure_state.vals[<<"sub", "b", "count">>] = 2

AccessOps(acc) == [i \in 1..Len(acc) |-> acc[i].op]

Count(sq, x) == Cardinality({ i \in 1..Len(sq) : sq[i] = x })

\* C8 (one cycle per top-level call): while a chain of accesses is built, no
\* merge and no split is done and no live graph exists for it; a call through a
\* chain of k >= 1 accesses does the k accesses, then one merge, the resolution
\* of the whole path, the invocation and one split, in this order.
C8_OneCyclePerCall ==
  \A t \in Threads :
    /\ pc[t] = "proxy" => ev[t] = AccessOps(accessor[t]) /\ node[t] = 0
    /\ Count(ev[t], "merge") <= 1
    /\ Count(ev[t], "split") <= 1
    /\ (pc[t] = "returned" /\ Len(accessor[t]) >= 1) =>
         ev[t] = AccessOps(accessor[t]) \o <<"merge", "resolve", "invoke", "split">>

C8_Witness ==
  /\ pc[1] = "returned"
  /\ accessor[1] = <<Attr("sub"), Item("b"), Attr("increment")>>
  /\ ev[1] = <<"attr", "item", "attr", "merge", "resolve", "invoke", "split">>

\* C9 (pairing): in every Pure object ever built, by pure or by a successful
\* direct, attribute-path or item-path call, the definition and the state are
\* the two parts of one and the same split.
C9_Pairing ==
  \A s \in 1..Len(snaps) :
    /\ snaps[s]._pure_graphdef.sid = snaps[s]._pure_state.sid
    /\ snaps[s]._pure_graphdef.sid \in 1..nsplit
    /\ \A r \in 1..Len(snaps) :
         r # s => snaps[r]._pure_graphdef.sid # snaps[s]._pure_state.sid

C9_Witness ==
  /\ Len(snaps) = 3
  /\ lineage[2].calls = <<[accessor |-> <<>>, args |-> <<GoodX>>]>>
  /\ lineage[3].calls = <<[accessor |-> <<>>, args |-> <<GoodX>>],
                          [accessor |-> <<Attr("increment")>>, args |-> <<>>]>>

\* The state right after  pure.<name>  was evaluated by thread t.
AfterGetattr(t) ==
  /\ pc[t] \in {"proxy", "attr"}
  /\ Len(accessor[t]) = 1
  /\ accessor[t][1].op = "attr"

\* C10 as stated: attribute access on a Pure object returns a deferred proxy
\* bound to the name, for any name, _pure_graphdef, _pure_state and replace
\* included.
C10_AnyNameGivesProxy ==
  \A t \in Threads :
    AfterGetattr(t) => ret[t].kind = "proxy" /\ pc[t] = "proxy"

\* C10, amended: attribute access on a Pure object returns a deferred proxy
\* bound to the name, with nothing resolved and no live graph built, for every
\* name that normal lookup does not find on the Pure object itself; the two
\* fields _pure_graphdef and _pure_state are found there and returned at once;
\* replace is among the proxied names, and is resolved against the live graph
\* only at the call.
C10_NonFieldNameGivesProxy ==
  \A t \in Threads :
    /\ AfterGetattr(t) =>
         IF accessor[t][1].name \in {"_pure_graphdef", "_pure_state"}
         THEN ret[t].kind = "member" /\ ret[t].snap = self[t] /\ pc[t] = "attr"
         ELSE /\ ret[t].kind = "proxy"
              /\ pc[t] = "proxy"
              /\ node[t] = 0
              /\ method[t] = NoTarget
              /\ ev[t] = <<"attr">>
    /\ (pc[t] = "raised" /\ accessor[t] = <<Attr("replace")>>) =>
         err[t] = "AttributeError" /\ ev[t] = <<"attr", "merge", "resolve">>

C10_Witness ==
  /\ pc[1] = "raised"
  /\ accessor[1] = <<Attr("replace")>>
  /\ err[1] = "AttributeError"

====
